---- MODULE Spec2Model ----
(***************************************************************************)
(* Notes store of note-manager (src-tauri/src/main.rs): four commands      *)
(* (create_note, list_notes, update_note, delete_note) over one directory  *)
(* of markdown files.                                                      *)
(*                                                                         *)
(* A string is a sequence of one-character strings.  A textual path        *)
(* (PathBuf) is such a string; the file system maps a resolved path, the   *)
(* sequence of its components, to the entry stored there.                  *)
(***************************************************************************)
EXTENDS Integers, Sequences, FiniteSets, TLC

VARIABLES
    fs,     \* the file system: resolved path -> entry
    last,   \* the command that ran last: its arguments and its response
    raw,    \* the string handed to sanitize_id
    out,    \* what sanitize_id returned for it
    procs   \* the create_note calls in flight: their locals and position

vars == <<fs, last, raw, out, procs>>

----------------------------------------------------------------------------
(* Strings *)

Range(s) == {s[i] : i \in 1..Len(s)}

SeqsUpTo(S, n) == UNION {[1..k -> S] : k \in 0..n}

Last(s) == s[Len(s)]

Front(s) == SubSeq(s, 1, Len(s) - 1)

\* A byte that is no part of valid UTF-8 (a file name or a file's content
\* may hold one; a Rust String never does).
BadByte == "<FF>"

IsUtf8(s) == BadByte \notin Range(s)

\* A character outside ASCII (U+00E9).
NonAscii == "<U+00E9>"

\* The characters of the model in code-point order; str::cmp compares
\* strings byte by byte, which for UTF-8 is code-point order.
CodePoints ==
    << " ", "-", ".", "/",
       "0", "1", "2", "3", "4", "5", "6", "7", "8", "9",
       "A", "B", "C", "D", "E", "F", "G", "H", "I", "J", "K", "L", "M",
       "N", "O", "P", "Q", "R", "S", "T", "U", "V", "W", "X", "Y", "Z",
       "\\", "_",
       "a", "b", "c", "d", "e", "f", "g", "h", "i", "j", "k", "l", "m",
       "n", "o", "p", "q", "r", "s", "t", "u", "v", "w", "x", "y", "z",
       NonAscii >>

CharCode == [c \in Range(CodePoints) |-> CHOOSE i \in 1..Len(CodePoints) : CodePoints[i] = c]

\* a.cmp(b) == Less: lexicographic, a proper prefix is smaller.
RECURSIVE StrLess(_, _)
StrLess(a, b) ==
    IF b = <<>> THEN FALSE
    ELSE IF a = <<>> THEN TRUE
    ELSE IF a[1] # b[1] THEN CharCode[a[1]] < CharCode[b[1]]
    ELSE StrLess(Tail(a), Tail(b))

Digits == <<"0", "1", "2", "3", "4", "5", "6", "7", "8", "9">>

\* format!("{n}") of an unsigned integer: its decimal digits.
RECURSIVE ToDecimal(_)
ToDecimal(n) ==
    IF n < 10 THEN <<Digits[n + 1]>>
    ELSE ToDecimal(n \div 10) \o <<Digits[(n % 10) + 1]>>

AsciiDigit == Range(Digits)

AsciiUpper ==
    { "A", "B", "C", "D", "E", "F", "G", "H", "I", "J", "K", "L", "M",
      "N", "O", "P", "Q", "R", "S", "T", "U", "V", "W", "X", "Y", "Z" }

AsciiLower ==
    { "a", "b", "c", "d", "e", "f", "g", "h", "i", "j", "k", "l", "m",
      "n", "o", "p", "q", "r", "s", "t", "u", "v", "w", "x", "y", "z" }

\* char::to_ascii_lowercase: an upper-case ASCII letter to its lower-case
\* one (28 places on in CodePoints), any other character unchanged.
ToAsciiLower(c) ==
    IF c \in AsciiUpper
    THEN CodePoints[CharCode[c] + 28]
    ELSE c

EqIgnoreAsciiCase(a, b) ==
    /\ Len(a) = Len(b)
    /\ \A i \in 1..Len(a) : ToAsciiLower(a[i]) = ToAsciiLower(b[i])

----------------------------------------------------------------------------
(* sanitize_id *)

Fallback == <<"n", "o", "t", "e">>

AsciiAlphanumeric == AsciiDigit \cup AsciiUpper \cup AsciiLower

\* A sanitizer that also keeps the dot.
IsAllowedChar_dot(ch) == ch \in AsciiAlphanumeric \/ ch = "_" \/ ch = "-" \/ ch = "."

\* ch.is_ascii_alphanumeric() || ch == '_' || ch == '-'
IsAllowedChar(ch) == ch \in AsciiAlphanumeric \/ ch = "_" \/ ch = "-"

\* A sanitizer that passes its input through.
sanitize_id_raw(s) == IF s = <<>> THEN Fallback ELSE s

sanitize_id(s) ==
    LET kept == SelectSeq(s, IsAllowedChar)
    IN  IF kept = <<>> THEN Fallback ELSE kept

----------------------------------------------------------------------------
(* Paths (std::path) *)

None == <<>>

Some(x) == <<x>>

MdExt == <<"m", "d">>

\* '/' separates components everywhere, '\' on Windows as well.
IsSeparator(c) == c \in {"/", "\\"}

\* The greatest element of a set of positions, 0 for none.
MaxOf(S) == IF S = {} THEN 0 ELSE CHOOSE i \in S : \A j \in S : j <= i

\* The pieces of a textual path between its separators, empty ones included.
Components(text) ==
    LET seps == {i \in 1..Len(text) : IsSeparator(text[i])}
        n    == Cardinality(seps)
        cut  == [k \in 0..(n + 1) |->
                    IF k = 0 THEN 0
                    ELSE IF k = n + 1 THEN Len(text) + 1
                    ELSE CHOOSE i \in seps : Cardinality({j \in seps : j < i}) = k - 1]
    IN  [k \in 1..(n + 1) |-> SubSeq(text, cut[k - 1] + 1, cut[k] - 1)]

HasRoot(text) == text # <<>> /\ IsSeparator(text[1])

\* Path::join: a rooted argument replaces the base, anything else is appended.
PathJoin(base, rel) ==
    IF HasRoot(rel) THEN rel
    ELSE IF base # <<>> /\ IsSeparator(Last(base)) THEN base \o rel
    ELSE base \o <<"/">> \o rel

\* What the operating system makes of a textual path: the components from
\* the root, "" and "." dropped, ".." stepping to the parent.
RECURSIVE ResolveFrom(_, _)
ResolveFrom(cs, acc) ==
    IF cs = <<>> THEN acc
    ELSE IF cs[1] \in {<<>>, <<".">>} THEN ResolveFrom(Tail(cs), acc)
    ELSE IF cs[1] = <<".", ".">>
         THEN ResolveFrom(Tail(cs), IF acc = <<>> THEN acc ELSE Front(acc))
    ELSE ResolveFrom(Tail(cs), Append(acc, cs[1]))

Resolve(text) == ResolveFrom(Components(text), <<>>)

\* Path::file_name of a path that ends in a normal component.
FileName(text) ==
    SubSeq(text, MaxOf({i \in 1..Len(text) : IsSeparator(text[i])}) + 1, Len(text))

LastDot(name) == MaxOf({i \in 1..Len(name) : name[i] = "."})

\* Path::file_stem: the name up to its last dot; the whole name when it has
\* no dot or only a leading one.
FileStem(text) ==
    LET name == FileName(text)
        i    == LastDot(name)
    IN  IF i <= 1 THEN name ELSE SubSeq(name, 1, i - 1)

\* Path::extension: what follows the last dot, if the stem before it is
\* not empty.
Extension(text) ==
    LET name == FileName(text)
        i    == LastDot(name)
    IN  IF i <= 1 THEN None ELSE Some(SubSeq(name, i + 1, Len(name)))

\* OsStr::to_str: None for a name that is not valid UTF-8.
ToStr(s) == IF IsUtf8(s) THEN Some(s) ELSE None

\* The application data directory the host resolves.
AppDataDir == <<"/", "d">>

notes_dir == PathJoin(AppDataDir, <<"n", "o", "t", "e", "s">>)

note_path(dir, id) == PathJoin(dir, id \o <<".">> \o MdExt)

\* An extension test that compares case-sensitively.
is_md_file_exact(path) ==
    LET e == Extension(path)
    IN  e # None /\ ToStr(e[1]) # None /\ e[1] = MdExt

is_md_file(path) ==
    LET e == Extension(path)
    IN  e # None /\ ToStr(e[1]) # None /\ EqIgnoreAsciiCase(e[1], MdExt)

\* format!("note_{ms}")
generate_id(ms) == <<"n", "o", "t", "e", "_">> \o ToDecimal(ms)

----------------------------------------------------------------------------
(* The file system *)

File(content) == [kind |-> "file", content |-> content, utf8 |-> TRUE]

\* A file whose bytes are not valid UTF-8.
BinaryFile == [kind |-> "file", content |-> "", utf8 |-> FALSE]

Directory == [kind |-> "dir", content |-> "", utf8 |-> TRUE]

Exists(f, path) == Resolve(path) \in DOMAIN f

\* Path::is_file
IsFile(f, path) == Exists(f, path) /\ f[Resolve(path)].kind = "file"

\* The directories a file can be created in: the root, the application
\* data directory, the notes directory (created at startup and before every
\* command) and the directories of the file system.
StandingDirs == {<<>>, Resolve(AppDataDir), Resolve(notes_dir)}

IsDir(f, p) ==
    \/ p \in StandingDirs
    \/ p \in DOMAIN f /\ f[p].kind = "dir"

\* The directory a resolved path lies in.
Parent(p) == IF p = <<>> THEN p ELSE Front(p)

\* p, a resolved path, names a direct child of the directory at d.
IsChildOf(p, d) == p # <<>> /\ Front(p) = d

\* fs::read_dir: the entries of a directory, as the paths DirEntry::path gives.
ReadDir(f, dir) ==
    LET d == Resolve(dir)
    IN  {PathJoin(dir, Last(p)) : p \in {q \in DOMAIN f : IsChildOf(q, d)}}

Remove(f, p) == [q \in DOMAIN f \ {p} |-> f[q]]

Put(f, p, e) == [q \in DOMAIN f \cup {p} |-> IF q = p THEN e ELSE f[q]]

\* An open that creates the file but takes an existing one as well.
OpenCreateNew_shared(f, path) ==
    LET p == Resolve(path)
    IN  IF p \in DOMAIN f
        THEN [ok |-> f[p].kind = "file", fs |-> f]
        ELSE IF ~IsDir(f, Parent(p)) THEN [ok |-> FALSE, fs |-> f]
        ELSE [ok |-> TRUE, fs |-> Put(f, p, File(""))]

\* OpenOptions::new().write(true).create_new(true).open(path): one atomic
\* step of the file system; fails when anything has the name already.
OpenCreateNew(f, path) ==
    LET p == Resolve(path)
    IN  IF p \in DOMAIN f \/ ~IsDir(f, Parent(p))
        THEN [ok |-> FALSE, fs |-> f]
        ELSE [ok |-> TRUE, fs |-> Put(f, p, File(""))]

\* file.write_all(bytes) on a handle at offset 0.
WriteAll(f, path, bytes) ==
    IF bytes = "" THEN f
    ELSE [f EXCEPT ![Resolve(path)].content = bytes]

\* A write that appends to the file it finds.
FsWrite_append(f, path, content) ==
    LET p == Resolve(path)
    IN  IF (p \in DOMAIN f /\ f[p].kind # "file") \/ ~IsDir(f, Parent(p))
        THEN [ok |-> FALSE, fs |-> f]
        ELSE IF p \in DOMAIN f /\ f[p].utf8
             THEN [ok |-> TRUE, fs |-> Put(f, p, File(f[p].content \o content))]
             ELSE [ok |-> TRUE, fs |-> Put(f, p, File(content))]

\* fs::write(path, content): create or truncate, then write.
FsWrite(f, path, content) ==
    LET p == Resolve(path)
    IN  IF (p \in DOMAIN f /\ f[p].kind # "file") \/ ~IsDir(f, Parent(p))
        THEN [ok |-> FALSE, fs |-> f]
        ELSE [ok |-> TRUE, fs |-> Put(f, p, File(content))]

\* A removal that reports a missing file as a failure.
RemoveFile_strict(f, path) ==
    LET p == Resolve(path)
    IN  IF p \notin DOMAIN f \/ f[p].kind # "file" THEN [res |-> "Other", fs |-> f]
        ELSE [res |-> "Ok", fs |-> Remove(f, p)]

\* fs::remove_file(path)
RemoveFile(f, path) ==
    LET p == Resolve(path)
    IN  IF p \notin DOMAIN f THEN [res |-> "NotFound", fs |-> f]
        ELSE IF f[p].kind # "file" THEN [res |-> "Other", fs |-> f]
        ELSE [res |-> "Ok", fs |-> Remove(f, p)]

----------------------------------------------------------------------------
(* The commands *)

\* const MAX_TRIES: usize = 5, and a loop that allows one try more.
MAX_TRIES_more == 5 + 1

MAX_TRIES == 5

\* A command's record: its arguments and its response.  raw is the id before
\* sanitize_id (the request's id; for create_note what generate_id gave),
\* removed says that delete_note's remove_file removed a file, notes is
\* list_notes' response, after is the id a create_note returned when the
\* command right before a list_notes was a successful create_note.
NoCall ==
    [ op |-> "none", raw |-> <<>>, content |-> "", id |-> <<>>, path |-> <<>>,
      res |-> "Ok", removed |-> FALSE, notes |-> <<>>, after |-> None ]

\* The id list_notes gives an entry: its stem, "" when that is not UTF-8.
StemId(path) == LET s == ToStr(FileStem(path)) IN IF s = None THEN <<>> ELSE s[1]

\* The entries list_notes keeps (lines 97-109).
Kept(f, dir) ==
    {path \in ReadDir(f, dir) : IsFile(f, path) /\ is_md_file(path) /\ StemId(path) # <<>>}

NoteRecord(f, path) ==
    [id |-> StemId(path), path |-> path, content |-> f[Resolve(path)].content]

\* Sorting in ascending order instead.
SortedNotes_asc(f, paths) ==
    LET RECURSIVE Asc(_)
        Asc(S) ==
            IF S = {} THEN {<<>>}
            ELSE LET lows == {p \in S : \A q \in S : ~StrLess(StemId(q), StemId(p))}
                 IN  UNION {{<<NoteRecord(f, p)>> \o t : t \in Asc(S \ {p})} : p \in lows}
    IN  Asc(paths)

\* notes.sort_by(|a, b| b.id.cmp(&a.id)) over the records pushed in the
\* order read_dir gave, which is any order: every arrangement of the
\* records in which no id is followed by a greater one.
SortedNotes(f, paths) ==
    LET RECURSIVE Desc(_)
        Desc(S) ==
            IF S = {} THEN {<<>>}
            ELSE LET tops == {p \in S : \A q \in S : ~StrLess(StemId(p), StemId(q))}
                 IN  UNION {{<<NoteRecord(f, p)>> \o t : t \in Desc(S \ {p})} : p \in tops}
    IN  Desc(paths)

\* list_notes
ListNotes ==
    LET dir  == notes_dir
        kept == Kept(fs, dir)
        after == IF last.op = "create" /\ last.res = "Ok" THEN Some(last.id) ELSE None
    IN  /\ IF \E path \in kept : ~fs[Resolve(path)].utf8
           THEN last' = [NoCall EXCEPT !.op = "list", !.res = "ReadFailure", !.after = after]
           ELSE \E notes \in SortedNotes(fs, kept) :
                    last' = [NoCall EXCEPT !.op = "list", !.notes = notes, !.after = after]
        /\ UNCHANGED <<fs, raw, out, procs>>

\* The path create_note's loop tries at an attempt (lines 142-146).
Candidate(dir, id, attempt) ==
    IF attempt = 0 THEN note_path(dir, id)
    ELSE note_path(dir, sanitize_id(id \o <<"_">> \o ToDecimal(attempt)))

\* create_note's loop (lines 141-168) from an attempt on.
RECURSIVE CreateLoop(_, _, _, _)
CreateLoop(f, dir, id, attempt) ==
    LET candidate == Candidate(dir, id, attempt)
        opened    == OpenCreateNew(f, candidate)
    IN  IF opened.ok
        THEN [ok |-> TRUE, path |-> candidate, fs |-> WriteAll(opened.fs, candidate, "")]
        ELSE IF attempt + 1 >= MAX_TRIES
             THEN [ok |-> FALSE, path |-> candidate, fs |-> f]
             ELSE CreateLoop(f, dir, id, attempt + 1)

\* A response that carries the id generated first.
ResponseId_first(final_path, id) == id

\* The id of create_note's response (lines 171-175).
ResponseId(final_path, id) ==
    LET s == ToStr(FileStem(final_path)) IN IF s = None THEN id ELSE s[1]

\* create_note, the clock reading ms
CreateNote(ms) ==
    LET dir  == notes_dir
        id   == sanitize_id(generate_id(ms))
        done == CreateLoop(fs, dir, id, 0)
    IN  /\ fs' = done.fs
        /\ last' = IF done.ok
                   THEN [NoCall EXCEPT !.op = "create", !.raw = generate_id(ms),
                                       !.id = ResponseId(done.path, id),
                                       !.path = done.path, !.content = ""]
                   ELSE [NoCall EXCEPT !.op = "create", !.raw = generate_id(ms),
                                       !.res = "CreationExhausted"]
        /\ UNCHANGED <<raw, out, procs>>

\* update_note
UpdateNote(reqId, content) ==
    LET dir   == notes_dir
        id    == sanitize_id(reqId)
        path  == note_path(dir, id)
        wrote == FsWrite(fs, path, content)
    IN  /\ fs' = wrote.fs
        /\ last' = [NoCall EXCEPT !.op = "update", !.raw = reqId, !.id = id, !.path = path,
                                  !.content = content,
                                  !.res = IF wrote.ok THEN "Ok" ELSE "WriteFailure"]
        /\ UNCHANGED <<raw, out, procs>>

\* delete_note
DeleteNote(reqId) ==
    LET dir  == notes_dir
        id   == sanitize_id(reqId)
        path == note_path(dir, id)
        gone == RemoveFile(fs, path)
    IN  /\ fs' = gone.fs
        /\ last' = [NoCall EXCEPT !.op = "delete", !.raw = reqId, !.id = id, !.path = path,
                                  !.removed = (gone.res = "Ok"),
                                  !.res = IF gone.res \in {"Ok", "NotFound"}
                                          THEN "Ok" ELSE "DeleteFailure"]
        /\ UNCHANGED <<raw, out, procs>>

----------------------------------------------------------------------------
(* The commands one after another, on a directory that may hold an entry   *)
(* the program did not put there                                           *)

\* The most entries the notes directory holds.
MaxFiles == 2

\* The latest clock reading, in milliseconds.
MaxMs == 10

\* The clock readings: two, of different lengths in decimal.
Clock == (MaxMs - 1)..MaxMs

Contents == {"X"}

\* Request ids: empty, plain, with separators, dots, a blank, a non-ASCII
\* character, the stem of a sub-directory; the front end also sends the ids
\* list_notes gave it.
RawIds ==
    { <<>>,
      <<"a">>,
      <<".", ".", "/", "a">>,
      <<"/", "a">>,
      <<".", ".", "\\", "a">>,
      <<"a", " ", "b">>,
      <<"x">>,
      <<NonAscii>> }

ListedIds(f) == {StemId(path) : path \in Kept(f, notes_dir)}

\* Files outside the notes directory.
Outside ==
    (<< <<"a", ".", "m", "d">> >> :> File("S")) @@
    (<< <<"d">>, <<"a", ".", "m", "d">> >> :> File("S")) @@
    (<< <<"d">>, <<"a", "b", ".", "m", "d">> >> :> File("S"))

\* What another program may have left in the notes directory: name and entry.
Foreign ==
    { << <<"f", "o", "o", ".", "t", "x", "t">>, File("X") >>,
      << <<"c">>, File("X") >>,
      << <<".", "m", "d">>, File("X") >>,
      << <<"x", ".", "m", "d">>, Directory >>,
      << <<"a", ".", "M", "D">>, File("X") >>,
      << <<"a", " ", "b", ".", "m", "d">>, File("X") >>,
      << <<BadByte, ".", "m", "d">>, File("X") >>,
      << <<"z", ".", "m", "d">>, BinaryFile >> }

NotesDirResolved == Resolve(notes_dir)

InNotesDir(f) == {p \in DOMAIN f : IsChildOf(p, NotesDirResolved)}

HasRoom(f) == Cardinality(InNotesDir(f)) < MaxFiles

Init ==
    /\ \/ fs = Outside
       \/ \E e \in Foreign : fs = Put(Outside, Resolve(PathJoin(notes_dir, e[1])), e[2])
    /\ last = NoCall
    /\ raw = <<>>
    /\ out = <<>>
    /\ procs = <<>>

Create == \E ms \in Clock : HasRoom(fs) /\ CreateNote(ms)

Update ==
    \E reqId \in RawIds \cup ListedIds(fs), content \in Contents :
        /\ HasRoom(fs) \/ Exists(fs, note_path(notes_dir, sanitize_id(reqId)))
        /\ UpdateNote(reqId, content)

Delete == \E reqId \in RawIds \cup ListedIds(fs) : DeleteNote(reqId)

Next == ListNotes \/ Create \/ Update \/ Delete

Spec == Init /\ [][Next]_vars

----------------------------------------------------------------------------
(* sanitize_id on every string up to a length                              *)

\* The longest string handed to sanitize_id.
MaxRawLen == 4

\* Letters that spell the fallback, an upper-case letter, a digit, the two
\* marks sanitize_id keeps, and characters it drops.
RawAlphabet == {"n", "o", "t", "e", "Z", "7", "_", "-", ".", "/", NonAscii}

InitSanitize ==
    /\ raw \in SeqsUpTo(RawAlphabet, MaxRawLen)
    /\ out = None
    /\ fs = Outside
    /\ last = NoCall
    /\ procs = <<>>

Sanitize ==
    /\ out = None
    /\ out' = Some(sanitize_id(raw))
    /\ UNCHANGED <<fs, last, raw, procs>>

NextSanitize == Sanitize

SpecSanitize == InitSanitize /\ [][NextSanitize]_vars

----------------------------------------------------------------------------
(* create_note on a directory that holds notes of the generated name       *)

\* The names create_note can try for a clock reading, and one more.
Tried(ms) == {Candidate(notes_dir, sanitize_id(generate_id(ms)), k) : k \in 0..MAX_TRIES}

WithFiles(f, paths, content) ==
    [p \in DOMAIN f \cup {Resolve(path) : path \in paths} |->
        IF p \in DOMAIN f THEN f[p] ELSE File(content)]

InitCollide ==
    /\ \E ms \in Clock : \E paths \in SUBSET Tried(ms) : fs = WithFiles(Outside, paths, "X")
    /\ last = NoCall
    /\ raw = <<>>
    /\ out = <<>>
    /\ procs = <<>>

CreateAny == \E ms \in Clock : CreateNote(ms)

NextCollide == CreateAny

SpecCollide == InitCollide /\ [][NextCollide]_vars

----------------------------------------------------------------------------
(* create_note calls that run at the same time                             *)

\* The create_note calls in flight.
NumProcs == 2

Procs == 1..NumProcs

Idle ==
    [pc |-> "start", gen |-> <<>>, id |-> <<>>, attempt |-> 0, path |-> <<>>, resId |-> <<>>]

InitConc ==
    /\ \E ms \in Clock : \E paths \in SUBSET (Tried(ms) \ {Candidate(notes_dir, sanitize_id(generate_id(ms)), MAX_TRIES)}) :
            fs = WithFiles(Outside, paths, "X")
    /\ procs = [p \in Procs |-> Idle]
    /\ last = NoCall
    /\ raw = <<>>
    /\ out = <<>>

\* Lines 131-140: the id from the clock, the first attempt.
Generate(p) ==
    /\ procs[p].pc = "start"
    /\ \E ms \in Clock :
            procs' = [procs EXCEPT ![p] = [@ EXCEPT !.pc = "open", !.gen = generate_id(ms),
                                                     !.id = sanitize_id(generate_id(ms))]]
    /\ UNCHANGED <<fs, last, raw, out>>

\* Lines 142-166: one turn of the loop, the exclusive open.
Open(p) ==
    /\ procs[p].pc = "open"
    /\ LET candidate == Candidate(notes_dir, procs[p].id, procs[p].attempt)
           opened    == OpenCreateNew(fs, candidate)
       IN  /\ fs' = opened.fs
           /\ procs' = [procs EXCEPT ![p] =
                  IF opened.ok
                  THEN [@ EXCEPT !.pc = "write", !.path = candidate]
                  ELSE IF procs[p].attempt + 1 >= MAX_TRIES
                       THEN [@ EXCEPT !.pc = "failed", !.attempt = @ + 1]
                       ELSE [@ EXCEPT !.attempt = @ + 1]]
    /\ UNCHANGED <<last, raw, out>>

\* Lines 155-157 and 170-178: the write and the response.
Write(p) ==
    /\ procs[p].pc = "write"
    /\ fs' = WriteAll(fs, procs[p].path, "")
    /\ procs' = [procs EXCEPT ![p] = [@ EXCEPT !.pc = "done",
                                               !.resId = ResponseId(procs[p].path, procs[p].id)]]
    /\ UNCHANGED <<last, raw, out>>

NextConc == \E p \in Procs : Generate(p) \/ Open(p) \/ Write(p)

SpecConc == InitConc /\ [][NextConc]_vars

----------------------------------------------------------------------------
(* The claims *)

\* The characters an id may hold: [A-Za-z0-9_-].
IdChars == AsciiDigit \cup AsciiUpper \cup AsciiLower \cup {"_", "-"}

InIdChars(c) == c \in IdChars

IdCharsOf(s) == SelectSeq(s, InIdChars)

DotMd == <<".", "m", "d">>

\* <notes_dir>/<id>.md
NoteFile(id) == notes_dir \o <<"/">> \o id \o DotMd

\* The id create_note tries at its k-th retry for the candidate g.
Retry(g, k) == g \o <<"_">> \o ToDecimal(k)

Least(S) == CHOOSE i \in S : \A j \in S : i <= j

\* A create_note step that found the candidate's file in place: it takes
\* the first free name among the retries, or fails when none of them is free.
C1Step(retries) ==
    (last'.op = "create" /\ Exists(fs, NoteFile(last'.raw))) =>
        LET g    == last'.raw
            free == {k \in 1..retries : ~Exists(fs, NoteFile(Retry(g, k)))}
        IN  IF free = {}
            THEN last'.res = "CreationExhausted" /\ fs' = fs
            ELSE /\ last'.res = "Ok"
                 /\ last'.id = Retry(g, Least(free))
                 /\ last'.path = NoteFile(last'.id)
                 /\ last'.content = ""
                 /\ last'.id \notin {FileStem(path) : path \in ReadDir(fs, notes_dir)}
                 /\ fs' = Put(fs, Resolve(NoteFile(last'.id)), File(""))

\* C1 as stated: on a collision create() retries g_1 .. g_5 in order, succeeds
\* with the first whose file does not exist (a new empty file, an id no note
\* had) and fails with CreationExhausted only when all five collide.
C1_FiveRetries == [][C1Step(5)]_vars

\* C1 amended: on a collision create() retries g_1 .. g_4 in order (five
\* attempts with the first), succeeds with the first whose file does not
\* exist (a new empty file, an id no note had) and fails with
\* CreationExhausted exactly when all four collide.
C1_FourRetries == [][C1Step(4)]_vars

C1_Witness ==
    /\ last.op = "create"
    /\ last.res = "Ok"
    /\ last.id = Retry(last.raw, 4)
    /\ IsFile(fs, NoteFile(last.id))

HasNote(notes, id, content) ==
    \E i \in 1..Len(notes) : notes[i].id = id /\ notes[i].content = content

\* Some markdown file of the notes directory is not UTF-8 text.
Unreadable(f) ==
    \E p \in DOMAIN f :
        /\ IsChildOf(p, Resolve(notes_dir))
        /\ f[p].kind = "file" /\ ~f[p].utf8
        /\ Len(Last(p)) >= 4
        /\ EqIgnoreAsciiCase(SubSeq(Last(p), Len(Last(p)) - 2, Len(Last(p))), DotMd)
        /\ IsUtf8(Last(p))

\* C2 as stated: a list() right after a successful create() returns an entry
\* with the created id and the empty content.
C2_ListHasCreated ==
    (last.op = "list" /\ last.after # None) =>
        last.res = "Ok" /\ HasNote(last.notes, last.after[1], "")

\* C2 amended: a list() right after a successful create() returns an entry
\* with the created id and the empty content, unless it fails with
\* ReadFailure, which it does when a markdown file of the directory cannot
\* be read as text.
C2_ListHasCreatedOrFails ==
    (last.op = "list" /\ last.after # None) =>
        IF Unreadable(fs)
        THEN last.res = "ReadFailure" /\ last.notes = <<>>
        ELSE last.res = "Ok" /\ HasNote(last.notes, last.after[1], "")

C2_Witness ==
    /\ last.op = "list"
    /\ last.res = "Ok"
    /\ last.after # None
    /\ \E ms \in Clock : last.after[1] = Retry(generate_id(ms), 1)
    /\ HasNote(last.notes, last.after[1], "")

\* C3 as stated: sanitize returns a non-empty string over [A-Za-z0-9_-], and
\* "note" if and only if the input has no character of [A-Za-z0-9_-].
C3_FallbackIff ==
    out # None =>
        /\ out[1] # <<>>
        /\ Range(out[1]) \subseteq IdChars
        /\ out[1] = Fallback <=> Range(raw) \cap IdChars = {}

\* C3 amended: sanitize returns a non-empty string over [A-Za-z0-9_-]: the
\* input's characters of [A-Za-z0-9_-] in order when it has any, "note"
\* otherwise; so it returns "note" if and only if the input has no such
\* character or its such characters spell "note".
C3_FallbackOrKept ==
    out # None =>
        /\ out[1] # <<>>
        /\ Range(out[1]) \subseteq IdChars
        /\ out[1] = IF IdCharsOf(raw) = <<>> THEN Fallback ELSE IdCharsOf(raw)
        /\ out[1] = Fallback <=>
              (Range(raw) \cap IdChars = {} \/ IdCharsOf(raw) = Fallback)

C3_Witness ==
    /\ out = Some(Fallback)
    /\ raw # <<>>
    /\ Range(raw) \cap IdChars = {}

\* The file system outside the notes directory is as it was at the start.
OutsideUntouched ==
    \A p \in DOMAIN fs \cup DOMAIN Outside :
        ~IsChildOf(p, Resolve(notes_dir)) =>
            p \in DOMAIN fs /\ p \in DOMAIN Outside /\ fs[p] = Outside[p]

\* C4: whatever the request's id, update and delete (and create) act on a
\* file that is a direct child of the notes directory, and after any
\* sequence of commands no file outside it is created, changed or removed.
C4_Contained ==
    /\ last.op \in {"update", "delete"} =>
          /\ IsChildOf(Resolve(last.path), Resolve(notes_dir))
          /\ Range(FileName(last.path)) \subseteq IdChars \cup {"."}
    /\ (last.op = "create" /\ last.res = "Ok") =>
          IsChildOf(Resolve(last.path), Resolve(notes_dir))
    /\ OutsideUntouched

C4_Witness ==
    /\ last.op = "update"
    /\ last.res = "Ok"
    /\ last.raw = <<".", ".", "/", "a">>
    /\ IsFile(fs, last.path)

\* C5: list() is sorted by id in descending order of plain string
\* comparison: no entry is followed by one with a greater id.
C5_Descending ==
    (last.op = "list" /\ last.res = "Ok") =>
        \A i \in 1..(Len(last.notes) - 1) :
            ~StrLess(last.notes[i].id, last.notes[i + 1].id)

\* note_9 listed before note_10: string order, not numeric order.
C5_Witness ==
    /\ last.op = "list"
    /\ last.res = "Ok"
    /\ \E i \in 1..Len(last.notes) : \E j \in 1..Len(last.notes) :
          /\ i < j
          /\ last.notes[i].id = <<"n", "o", "t", "e", "_", "9">>
          /\ last.notes[j].id = <<"n", "o", "t", "e", "_", "1", "0">>

\* A name of valid UTF-8 with a non-empty stem and an extension that is
\* "md" in any case.
MdName(name) ==
    /\ Len(name) >= 4
    /\ EqIgnoreAsciiCase(SubSeq(name, Len(name) - 2, Len(name)), DotMd)
    /\ IsUtf8(name)

\* The regular files of the notes directory with such a name.
MdFiles(f) == {path \in ReadDir(f, notes_dir) : IsFile(f, path) /\ MdName(FileName(path))}

\* list() returned exactly one entry for each of the paths and no other.
ListsExactly(notes, paths) ==
    /\ \A path \in paths : Cardinality({i \in 1..Len(notes) : notes[i].path = path}) = 1
    /\ \A i \in 1..Len(notes) : notes[i].path \in paths

\* C6 as stated: list() returns exactly one entry for each regular file of
\* the notes directory with an "md" extension (any case) and a non-empty
\* stem (read as text), and no entry for anything else.
C6_ListsMdFiles ==
    last.op = "list" =>
        /\ last.res = "Ok"
        /\ ListsExactly(last.notes, MdFiles(fs))

\* C6 amended: list() fails with ReadFailure, returning nothing, when a
\* markdown file of the directory cannot be read as text; otherwise it
\* returns exactly one entry for each regular file with an "md" extension
\* (any case) and a non-empty stem (read as text), and no entry for
\* anything else.
C6_ListsMdFilesOrFails ==
    last.op = "list" =>
        IF Unreadable(fs)
        THEN last.res = "ReadFailure" /\ last.notes = <<>>
        ELSE /\ last.res = "Ok"
             /\ ListsExactly(last.notes, MdFiles(fs))

\* A listing beside an entry it leaves out, with an upper-case extension kept.
C6_Witness ==
    /\ last.op = "list"
    /\ last.res = "Ok"
    /\ \E i \in 1..Len(last.notes) : FileName(last.notes[i].path) = <<"a", ".", "M", "D">>
    /\ Len(last.notes) = 2

\* A delete_note step: with no file at the id's path it succeeds and changes
\* nothing; it never changes another file.
C7Step ==
    last'.op = "delete" =>
        /\ ~Exists(fs, last'.path) => (last'.res = "Ok" /\ fs' = fs)
        /\ IsFile(fs, last'.path) => (last'.res = "Ok" /\ fs' = Remove(fs, Resolve(last'.path)))
        /\ \A p \in DOMAIN fs \ {Resolve(last'.path)} : p \in DOMAIN fs' /\ fs'[p] = fs[p]

\* After a successful delete the file is absent and the same delete again
\* succeeds and changes nothing.
C7After ==
    (last.op = "delete" /\ last.res = "Ok") =>
        /\ last.path = NoteFile(last.id)
        /\ ~Exists(fs, last.path)
        /\ LET again == RemoveFile(fs, note_path(notes_dir, sanitize_id(last.raw)))
           IN  again.res \in {"Ok", "NotFound"} /\ again.fs = fs

\* C7: delete is idempotent: on an id whose file does not exist it succeeds
\* and leaves the files unchanged, the first time and every time after; after
\* a successful delete of an existing note the file is absent and a second
\* delete succeeds.
C7_DeleteIdempotent == []C7After /\ [][C7Step]_vars

C7_Witness ==
    /\ last.op = "delete"
    /\ last.res = "Ok"
    /\ ~last.removed
    /\ ~Exists(fs, last.path)

\* C8: update is a full overwrite and idempotent: after update(id, X)
\* succeeds the file <notes_dir>/<sanitize(id)>.md holds exactly X, and the
\* same update again leaves the directory as it is.
C8_UpdateOverwrites ==
    (last.op = "update" /\ last.res = "Ok") =>
        /\ last.path = NoteFile(IF IdCharsOf(last.raw) = <<>> THEN Fallback ELSE IdCharsOf(last.raw))
        /\ IsFile(fs, last.path)
        /\ fs[Resolve(last.path)] = File(last.content)
        /\ LET again == FsWrite(fs, note_path(notes_dir, sanitize_id(last.raw)), last.content)
           IN  again.ok /\ again.fs = fs

\* An update of a note create_note made (its content was empty before).
C8_Witness ==
    /\ last.op = "update"
    /\ last.res = "Ok"
    /\ \E ms \in Clock : last.raw = generate_id(ms)
    /\ last.content = "X"
    /\ fs[Resolve(last.path)].content = "X"

\* A Note as the data model has it: a non-empty id over [A-Za-z0-9_-] and
\* the path <notes_dir>/<id>.md.
WellFormedNote(id, path) ==
    /\ id # <<>>
    /\ Range(id) \subseteq IdChars
    /\ path = NoteFile(id)

\* C9: every Note list() or create() returns has a non-empty id over
\* [A-Za-z0-9_-] and the path <notes_dir>/<id>.md, the file update(id) and
\* delete(id) act on.
C9_NotesWellFormed ==
    /\ (last.op = "list" /\ last.res = "Ok") =>
          \A i \in 1..Len(last.notes) :
              /\ WellFormedNote(last.notes[i].id, last.notes[i].path)
              /\ note_path(notes_dir, sanitize_id(last.notes[i].id)) = last.notes[i].path
    /\ (last.op = "create" /\ last.res = "Ok") => WellFormedNote(last.id, last.path)

\* Two calls that opened a file.
Succeeded(p) == procs[p].pc \in {"write", "done"}

\* No two successful calls have the same file, id or path.
C10Distinct ==
    \A p \in DOMAIN procs : \A q \in DOMAIN procs :
        (p # q /\ Succeeded(p) /\ Succeeded(q)) =>
            /\ procs[p].path # procs[q].path
            /\ Resolve(procs[p].path) # Resolve(procs[q].path)
            /\ (procs[p].pc = "done" /\ procs[q].pc = "done") => procs[p].resId # procs[q].resId

\* No step changes or removes a file that is there.
C10Keep == \A x \in DOMAIN fs : x \in DOMAIN fs' /\ fs'[x] = fs[x]

\* C10: create() calls that run at the same time and generate the same id
\* never succeed on the same file: successful calls return distinct ids and
\* paths, and no call changes a file that was there before it or that
\* another call created.
C10_NoClobber == []C10Distinct /\ [][C10Keep]_vars

\* Two calls that generated the same id are both done.
C10_Witness ==
    /\ DOMAIN procs # {}
    /\ \E p \in DOMAIN procs : \E q \in DOMAIN procs :
          /\ p # q
          /\ procs[p].pc = "done" /\ procs[q].pc = "done"
          /\ procs[p].gen = procs[q].gen
          /\ procs[p].resId # procs[q].resId

====
